---- MODULE Spec2Model ----
(***************************************************************************)
(* Model of screenshot.py: a one-shot script that ensures the directory    *)
(* backups/screenshots, builds a file name from the local clock, captures  *)
(* the display, saves the image and reports on standard output.            *)
(*                                                                         *)
(* A behaviour is a number of invocations of the script (Runs), which may  *)
(* overlap, sharing the file system, the console and the local clock.  The *)
(* clock is the naive local time datetime.now() reads, in ticks of         *)
(* 1/TicksPerSec second since Epoch: it advances, and it may be set back   *)
(* (the end of summer time, a correction of the system clock).  Text is    *)
(* modelled as sequences of one-character strings so that formatting and   *)
(* parsing are computed, not assumed.                                      *)
(***************************************************************************)
EXTENDS Integers, Sequences, FiniteSets, TLC

\* ------------------------------------------------------------------ bounds
MaxRuns == 2         \* invocations of the script in one behaviour
MaxElapsed == 1      \* ticks the clock may advance in one behaviour
TicksPerSec == 2     \* clock resolution below the second

Runs == 1..MaxRuns

\* The local date and time of tick 0.
Epoch == [year |-> 2023, month |-> 1, day |-> 1]

\* The second of local time, counted from Epoch, in which a behaviour
\* starts: the last one of the year 2023 (every field of the timestamp rolls
\* over with the next second).
StartSeconds == { 365 * 86400 - 1 }

\* A behaviour starts on the last tick of that second.
StartTicks == { TicksPerSec * s + TicksPerSec - 1 : s \in StartSeconds }

\* By how many ticks the local clock is set back when summer time ends.
SummerHour == 3600 * TicksPerSec

\* ------------------------------------------------------------- text helpers
DigitChars == << "0", "1", "2", "3", "4", "5", "6", "7", "8", "9" >>

DigitChar(d) == DigitChars[d + 1]

\* %m, %d, %H, %M, %S : two digits, zero padded
Pad2(n) == << DigitChar((n \div 10) % 10), DigitChar(n % 10) >>

\* %Y : four digits
Pad4(n) ==
    << DigitChar((n \div 1000) % 10), DigitChar((n \div 100) % 10),
       DigitChar((n \div 10) % 10), DigitChar(n % 10) >>

\* ----------------------------------------------------------------- calendar
IsLeap(y) == (y % 4 = 0 /\ y % 100 # 0) \/ y % 400 = 0

DaysInYear(y) == IF IsLeap(y) THEN 366 ELSE 365

DaysInMonth(y, m) ==
    IF m = 2 THEN (IF IsLeap(y) THEN 29 ELSE 28)
    ELSE IF m \in {4, 6, 9, 11} THEN 30 ELSE 31

RECURSIVE YearOfDay(_, _)
\* <<year, day of the year (from 0)>> of day d counted from 1 January of y
YearOfDay(y, d) ==
    IF d < DaysInYear(y) THEN << y, d >> ELSE YearOfDay(y + 1, d - DaysInYear(y))

RECURSIVE MonthOfDay(_, _, _)
\* <<month, day of the month (from 1)>> of day d (from 0) of month m of y
MonthOfDay(y, m, d) ==
    IF d < DaysInMonth(y, m) THEN << m, d + 1 >>
    ELSE MonthOfDay(y, m + 1, d - DaysInMonth(y, m))

\* datetime.utcnow() where local time is one hour behind UTC
utcnow(t) ==
    LET s   == (t \div TicksPerSec) + 3600
        yd  == YearOfDay(Epoch.year, s \div 86400)
        md  == MonthOfDay(yd[1], 1, yd[2])
        sod == s % 86400
    IN  [ year |-> yd[1], month |-> md[1], day |-> md[2],
          hour |-> sod \div 3600, minute |-> (sod \div 60) % 60,
          second |-> sod % 60, sub |-> t % TicksPerSec ]

\* datetime.now(): the local date and time of a clock reading, with the
\* part below the second kept (datetime carries microseconds).
now(t) ==
    LET s   == t \div TicksPerSec
        yd  == YearOfDay(Epoch.year, s \div 86400)
        md  == MonthOfDay(yd[1], 1, yd[2])
        sod == s % 86400
    IN  [ year |-> yd[1], month |-> md[1], day |-> md[2],
          hour |-> sod \div 3600, minute |-> (sod \div 60) % 60,
          second |-> sod % 60, sub |-> t % TicksPerSec ]

\* strftime with a format that leaves the hour out ("%Y-%m-%d-%M%S")
strftimeNoHour(dt) ==
    Pad4(dt.year) \o << "-" >> \o Pad2(dt.month) \o << "-" >> \o Pad2(dt.day)
        \o << "-" >> \o Pad2(dt.minute) \o Pad2(dt.second)

\* .strftime("%Y-%m-%d-%H%M%S")
strftime(dt) ==
    Pad4(dt.year) \o << "-" >> \o Pad2(dt.month) \o << "-" >> \o Pad2(dt.day)
        \o << "-" >> \o Pad2(dt.hour) \o Pad2(dt.minute) \o Pad2(dt.second)

\* ------------------------------------------------------------------- paths
screenshot_dir ==
    << "b", "a", "c", "k", "u", "p", "s", "/",
       "s", "c", "r", "e", "e", "n", "s", "h", "o", "t", "s" >>

FilePrefix == << "s", "c", "r", "e", "e", "n", "s", "h", "o", "t", "-" >>

FileSuffix == << ".", "p", "n", "g" >>

\* f"screenshot-{timestamp}.png"
FileName(ts) == FilePrefix \o ts \o FileSuffix

\* os.path.join(dir, name) for a relative name
PathJoin(dir, name) == dir \o << "/" >> \o name

\* ------------------------------------------------------------- file system
\* parent is the path "backups", child the path "backups/screenshots";
\* writable: the process may create entries in the working directory;
\* parentWritable: it may create entries in "backups" (for a "backups" that
\* is still absent: in the directory the umask will let mkdir create).
FsStates ==
    { f \in [ parent : {"absent", "dir", "file"},
              child : {"absent", "dir", "file"},
              writable : BOOLEAN,
              parentWritable : BOOLEAN ] :
        f.child # "absent" => f.parent = "dir" }

\* The file systems a behaviour starts in: a permission that no step can
\* read in a state is left at TRUE.
InitFs ==
    { f \in FsStates :
        /\ f.parent # "absent" => f.writable
        /\ (f.parent = "file" \/ f.child # "absent") => f.parentWritable }

\* os.makedirs without exist_ok: an existing directory is an error too
makedirsStrict(f, exist_ok) ==
    IF f.parent = "absent"
    THEN IF ~f.writable THEN [ raised |-> TRUE, fs |-> f ]
         ELSE IF f.parentWritable
              THEN [ raised |-> FALSE,
                     fs |-> [ f EXCEPT !.parent = "dir", !.child = "dir" ] ]
              ELSE [ raised |-> TRUE, fs |-> [ f EXCEPT !.parent = "dir" ] ]
    ELSE IF f.parent = "file" THEN [ raised |-> TRUE, fs |-> f ]
    ELSE IF f.child = "absent"
         THEN IF f.parentWritable
              THEN [ raised |-> FALSE, fs |-> [ f EXCEPT !.child = "dir" ] ]
              ELSE [ raised |-> TRUE, fs |-> f ]
    ELSE [ raised |-> TRUE, fs |-> f ]

\* os.makedirs that swallows every error
makedirsIgnoreErrors(f, exist_ok) ==
    IF f.parent = "absent"
    THEN IF ~f.writable THEN [ raised |-> FALSE, fs |-> f ]
         ELSE IF f.parentWritable
              THEN [ raised |-> FALSE,
                     fs |-> [ f EXCEPT !.parent = "dir", !.child = "dir" ] ]
              ELSE [ raised |-> FALSE, fs |-> [ f EXCEPT !.parent = "dir" ] ]
    ELSE IF f.parent = "dir" /\ f.child = "absent" /\ f.parentWritable
         THEN [ raised |-> FALSE, fs |-> [ f EXCEPT !.child = "dir" ] ]
    ELSE [ raised |-> FALSE, fs |-> f ]

\* os.makedirs(name, exist_ok): mkdir of the missing parent, then mkdir of
\* the directory.  When the second mkdir fails the parent stays created.  An
\* OSError of the last mkdir is swallowed only when exist_ok and the path
\* is a directory.
makedirs(f, exist_ok) ==
    IF f.parent = "absent"
    THEN IF ~f.writable THEN [ raised |-> TRUE, fs |-> f ]
         ELSE IF f.parentWritable
              THEN [ raised |-> FALSE,
                     fs |-> [ f EXCEPT !.parent = "dir", !.child = "dir" ] ]
              ELSE [ raised |-> TRUE, fs |-> [ f EXCEPT !.parent = "dir" ] ]
    ELSE IF f.parent = "file" THEN [ raised |-> TRUE, fs |-> f ]
    ELSE IF f.child = "absent"
         THEN IF f.parentWritable
              THEN [ raised |-> FALSE, fs |-> [ f EXCEPT !.child = "dir" ] ]
              ELSE [ raised |-> TRUE, fs |-> f ]
    ELSE IF exist_ok /\ f.child = "dir" THEN [ raised |-> FALSE, fs |-> f ]
    ELSE [ raised |-> TRUE, fs |-> f ]

\* A write that leaves the directory as it was
SaveFileNoWrite(fl, path, content) == fl

\* open(path, "xb") and write: a file that is already there is left as it is
SaveFileKeepExisting(fl, path, content) ==
    [ p \in (DOMAIN fl) \cup {path} |-> IF p \in DOMAIN fl THEN fl[p] ELSE content ]

\* open(path, "wb") and write: creates the file or replaces its content
SaveFile(fl, path, content) ==
    [ p \in (DOMAIN fl) \cup {path} |-> IF p = path THEN content ELSE fl[p] ]

\* ------------------------------------------------------------------ errors
\* The base class of each exception class the model raises.
BaseOf(cls) ==
    CASE cls = "PermissionError" -> "OSError"
      [] cls = "OSError" -> "Exception"
      [] cls = "NotImplementedError" -> "RuntimeError"
      [] cls = "RuntimeError" -> "Exception"
      [] cls = "UnicodeEncodeError" -> "UnicodeError"
      [] cls = "UnicodeError" -> "ValueError"
      [] cls = "ValueError" -> "Exception"
      [] cls = "Exception" -> "BaseException"
      [] OTHER -> "object"

RECURSIVE IsSubclass(_, _)
IsSubclass(cls, base) ==
    IF cls = base THEN TRUE
    ELSE IF cls = "object" THEN FALSE
    ELSE IsSubclass(BaseOf(cls), base)

NoError == [ cls |-> "none", msg |-> "" ]

\* What pyautogui.screenshot() may raise (no screenshot tool for the display)
CaptureErrors ==
    { [ cls |-> "NotImplementedError", msg |-> "scrot must be installed" ] }

\* What image.save(filepath) may raise; partial: the file was already opened
\* for writing when the error came.
SaveErrors ==
    { [ cls |-> "OSError", msg |-> "No space left on device", partial |-> TRUE ] }

\* What print raises when the encoding of stdout has no code for the sign
\* the line starts with.
EncodeError ==
    [ cls |-> "UnicodeEncodeError", msg |-> "codec can't encode character" ]

\* except Exception as e
Catches(cls) == IsSubclass(cls, "Exception")

\* A printed line is <<its leading sign (by code point), its fixed text, the
\* value formatted into it>>.
\* print(f"<U+2705> Screenshot saved: {filepath}")
SuccessLine(path) == << "U+2705", " Screenshot saved: ", path >>

\* print(f"<U+274C> Failed to take screenshot: {e}")
FailureLine(err) == << "U+274C", " Failed to take screenshot: ", err.msg >>

\* What stdout is: a stream that encodes every character ("utf8"), one whose
\* encoding has no code for the signs of the two messages ("ascii"), or one
\* that buffers the text and cannot write it out ("full").
Consoles == { "utf8", "ascii", "full" }

\* ------------------------------------------------------------------- state
VARIABLES
    clock,        \* the local clock, in ticks since Epoch
    mono,         \* the ticks that have passed since the behaviour began
    fs,           \* the directories "backups" and "backups/screenshots"
    files,        \* the files of backups/screenshots: path -> content
    console,      \* what stdout is
    pc,           \* per run: the statement about to execute
    timestamp,    \* per run: the script's variable timestamp
    filepath,     \* per run: the script's variable filepath
    image,        \* per run: the captured image (0: none yet)
    e,            \* per run: the exception bound by the except clause
    stdout,       \* per run: the lines written to stdout
    exitStatus,   \* per run: -1 while not exited, else the exit status
    hist          \* per run: what an observer of the run records

vars ==
    << clock, mono, fs, files, console, pc, timestamp, filepath, image, e,
       stdout, exitStatus, hist >>

NoFiles == [ p \in {} |-> 0 ]

\* What an observer holds of a run.  While the process lives: the clock
\* reading at its start.  For good: the second of the clock reading the
\* timestamp was made of, the steps taken and the error raised in the try.
NoHist ==
    [ startClock |-> -1, tsClock |-> -1, steps |-> << >>, raised |-> NoError ]

\* The observer's record of a run whose process has ended.
Ended(h) ==
    [ h EXCEPT !.startClock = -1 ]

Init ==
    /\ clock \in StartTicks
    /\ mono = 0
    /\ fs \in InitFs
    /\ files = NoFiles
    /\ console \in Consoles
    /\ pc = [ r \in Runs |-> "idle" ]
    /\ timestamp = [ r \in Runs |-> << >> ]
    /\ filepath = [ r \in Runs |-> << >> ]
    /\ image = [ r \in Runs |-> 0 ]
    /\ e = [ r \in Runs |-> NoError ]
    /\ stdout = [ r \in Runs |-> << >> ]
    /\ exitStatus = [ r \in Runs |-> -1 ]
    /\ hist = [ r \in Runs |-> NoHist ]

Exited(r) == pc[r] \in {"done", "crashed"}

Running(r) == pc[r] \notin {"idle", "done", "crashed"}

\* ----------------------------------------------------------------- actions
\* Time passes: the local clock advances by one tick.
Tick ==
    /\ mono < MaxElapsed
    /\ mono' = mono + 1
    /\ clock' = clock + 1
    /\ UNCHANGED << fs, files, console, pc, timestamp, filepath, image, e,
                    stdout, exitStatus, hist >>

\* Summer time ends (once in a behaviour): the local clock is set back.
SetBack ==
    /\ clock - mono \in StartTicks
    /\ clock' = clock - SummerHour
    /\ UNCHANGED << mono, fs, files, console, pc, timestamp, filepath, image,
                    e, stdout, exitStatus, hist >>

\* The script is started (runs are numbered in the order they start) and
\* runs line 9: os.makedirs(screenshot_dir, exist_ok=True), outside any try:
\* an error ends the process with a traceback and status 1.
EnsureDir(r) ==
    /\ pc[r] = "idle"
    /\ r > 1 => pc[r - 1] # "idle"
    /\ LET res == makedirs(fs, TRUE)
           h   == [ hist[r] EXCEPT
                      !.startClock = clock,
                      !.steps = IF res.raised THEN @
                                ELSE Append(@, "ensure_directory") ]
       IN  /\ fs' = res.fs
           /\ IF res.raised
              THEN /\ pc' = [ pc EXCEPT ![r] = "crashed" ]
                   /\ exitStatus' = [ exitStatus EXCEPT ![r] = 1 ]
                   /\ hist' = [ hist EXCEPT ![r] = Ended(h) ]
              ELSE /\ pc' = [ pc EXCEPT ![r] = "now" ]
                   /\ hist' = [ hist EXCEPT ![r] = h ]
                   /\ UNCHANGED exitStatus
    /\ UNCHANGED << clock, mono, files, console, timestamp, filepath, image,
                    e, stdout >>

\* Lines 12-14: timestamp, filename, filepath.
Timestamp(r) ==
    /\ pc[r] = "now"
    /\ timestamp' = [ timestamp EXCEPT ![r] = strftime(now(clock)) ]
    /\ filepath' = [ filepath EXCEPT
                       ![r] = PathJoin(screenshot_dir, FileName(timestamp'[r])) ]
    /\ pc' = [ pc EXCEPT ![r] = "capture" ]
    /\ hist' = [ hist EXCEPT ![r].tsClock = clock \div TicksPerSec,
                             ![r].steps = Append(@, "filename") ]
    /\ UNCHANGED << clock, mono, fs, files, console, image, e, stdout,
                    exitStatus >>

\* An exception raised inside the try block (lines 17-20): the except clause
\* of line 21 takes it when it matches, otherwise the process dies of it.
\* h is the observer's record of the run so far.
Raise(r, err, h) ==
    IF Catches(err.cls)
    THEN /\ pc' = [ pc EXCEPT ![r] = "except" ]
         /\ e' = [ e EXCEPT ![r] = err ]
         /\ exitStatus' = exitStatus
         /\ hist' = [ hist EXCEPT ![r] = h ]
    ELSE /\ pc' = [ pc EXCEPT ![r] = "crashed" ]
         /\ e' = e
         /\ exitStatus' = [ exitStatus EXCEPT ![r] = 1 ]
         /\ hist' = [ hist EXCEPT ![r] = Ended(h) ]

\* Line 18: image = pyautogui.screenshot() returns.
CaptureOk(r) ==
    /\ pc[r] = "capture"
    /\ image' = [ image EXCEPT ![r] = r ]
    /\ pc' = [ pc EXCEPT ![r] = "save" ]
    /\ hist' = [ hist EXCEPT ![r].steps = Append(@, "capture") ]
    /\ UNCHANGED << clock, mono, fs, files, console, timestamp, filepath, e,
                    stdout, exitStatus >>

\* Line 18: pyautogui.screenshot() raises.
CaptureRaise(r, err) ==
    /\ pc[r] = "capture"
    /\ UNCHANGED << clock, mono, fs, files, console, timestamp, filepath,
                    image, stdout >>
    /\ Raise(r, err, [ hist[r] EXCEPT !.steps = Append(@, "capture_failed"),
                                      !.raised = err ])

\* Line 19: image.save(filepath) returns: the file holds the image.
SaveOk(r) ==
    /\ pc[r] = "save"
    /\ fs.child = "dir"
    /\ files' = SaveFile(files, filepath[r], [ by |-> r, complete |-> TRUE ])
    /\ pc' = [ pc EXCEPT ![r] = "print" ]
    /\ hist' = [ hist EXCEPT ![r].steps = Append(@, "save") ]
    /\ UNCHANGED << clock, mono, fs, console, timestamp, filepath, image, e,
                    stdout, exitStatus >>

\* A failed save that is passed over: the script goes on to report success
SaveRaisePassed(r, err) ==
    /\ pc[r] = "save"
    /\ pc' = [ pc EXCEPT ![r] = "print" ]
    /\ hist' = [ hist EXCEPT ![r].steps = Append(@, "save_failed"),
                             ![r].raised = err ]
    /\ UNCHANGED << clock, mono, fs, files, console, timestamp, filepath,
                    image, e, stdout, exitStatus >>

\* Line 19: image.save(filepath) raises.  A file that save itself created
\* is removed again; one that was there before stays, with what was written.
SaveRaise(r, err) ==
    /\ pc[r] = "save"
    /\ files' = IF /\ err.partial
                   /\ fs.child = "dir"
                   /\ filepath[r] \in DOMAIN files
                THEN SaveFile(files, filepath[r],
                              [ by |-> r, complete |-> FALSE ])
                ELSE files
    /\ Raise(r, err, [ hist[r] EXCEPT !.steps = Append(@, "save_failed"),
                                      !.raised = err ])
    /\ UNCHANGED << clock, mono, fs, console, timestamp, filepath, image,
                    stdout >>

\* The end of the script: the interpreter flushes stdout and exits, with
\* status 0, or 120 when the buffered text cannot be written.
ExitAtEnd(r) ==
    /\ pc' = [ pc EXCEPT ![r] = "done" ]
    /\ exitStatus' = [ exitStatus EXCEPT
                         ![r] = IF console = "full" THEN 120 ELSE 0 ]

\* Line 20, the last of the try block: the success line, then the end of
\* the script.  A stdout that cannot encode the line makes print raise
\* inside the try; one that cannot be written loses the line at exit.
PrintSaved(r) ==
    /\ pc[r] = "print"
    /\ IF console = "ascii"
       THEN /\ Raise(r, EncodeError,
                     [ hist[r] EXCEPT
                         !.steps = Append(@, "report_saved_failed"),
                         !.raised = EncodeError ])
            /\ UNCHANGED stdout
       ELSE /\ stdout' = IF console = "utf8"
                         THEN [ stdout EXCEPT
                                  ![r] = Append(@, SuccessLine(filepath[r])) ]
                         ELSE stdout
            /\ ExitAtEnd(r)
            /\ hist' = [ hist EXCEPT
                           ![r] = Ended([ @ EXCEPT
                               !.steps = Append(@, "report_saved") ]) ]
            /\ UNCHANGED e
    /\ UNCHANGED << clock, mono, fs, files, console, timestamp, filepath,
                    image >>

\* Lines 21-22: the failure line, then the end of the script.  print raising
\* here is not handled: the process dies with status 1.  Either way e is
\* unbound when the clause is left.
Except(r) ==
    /\ pc[r] = "except"
    /\ e' = [ e EXCEPT ![r] = NoError ]
    /\ IF console = "ascii"
       THEN /\ pc' = [ pc EXCEPT ![r] = "crashed" ]
            /\ exitStatus' = [ exitStatus EXCEPT ![r] = 1 ]
            /\ hist' = [ hist EXCEPT
                           ![r] = Ended([ @ EXCEPT
                               !.steps = Append(@, "report_failed_failed") ]) ]
            /\ UNCHANGED stdout
       ELSE /\ stdout' = IF console = "utf8"
                         THEN [ stdout EXCEPT
                                  ![r] = Append(@, FailureLine(e[r])) ]
                         ELSE stdout
            /\ ExitAtEnd(r)
            /\ hist' = [ hist EXCEPT
                           ![r] = Ended([ @ EXCEPT
                               !.steps = Append(@, "report_failed") ]) ]
    /\ UNCHANGED << clock, mono, fs, files, console, timestamp, filepath,
                    image >>

Next ==
    \/ Tick
    \/ SetBack
    \/ \E r \in Runs : EnsureDir(r)
    \/ \E r \in Runs : Timestamp(r)
    \/ \E r \in Runs : CaptureOk(r)
    \/ \E r \in Runs : \E err \in CaptureErrors : CaptureRaise(r, err)
    \/ \E r \in Runs : SaveOk(r)
    \/ \E r \in Runs : \E err \in SaveErrors : SaveRaise(r, err)
    \/ \E r \in Runs : PrintSaved(r)
    \/ \E r \in Runs : Except(r)

Spec == Init /\ [][Next]_vars


\* ------------------------------------------------------ observing a run
Started(r) == pc[r] # "idle"

Steps(r) == hist[r].steps

Did(r, step) == \E i \in 1..Len(Steps(r)) : Steps(r)[i] = step

\* The run got past the creation of the backup directory.
PastDirectory(r) == Steps(r) # << >>

\* A failure occurred during the capture step or during the save step.
FailedInTry(r) == Did(r, "capture_failed") \/ Did(r, "save_failed")

IsSuccessLine(l) == l[1] = "U+2705" /\ l[2] = " Screenshot saved: "

IsFailureLine(l) == l[1] = "U+274C" /\ l[2] = " Failed to take screenshot: "

PrintedSuccess(r) == \E i \in 1..Len(stdout[r]) : IsSuccessLine(stdout[r][i])

PrintedFailure(r) == \E i \in 1..Len(stdout[r]) : IsFailureLine(stdout[r][i])

\* The run ended by printing the success message.
Succeeded(r) ==
    /\ pc[r] = "done"
    /\ stdout[r] # << >>
    /\ IsSuccessLine(stdout[r][Len(stdout[r])])

\* The run's save returned.
Saved(r) == Did(r, "save")

\* Creating backups/screenshots cannot succeed in file system f: a regular
\* file occupies the path or its parent, or a missing directory may not be
\* created where it belongs.
DirCreationFails(f) ==
    \/ f.child = "file"
    \/ f.parent = "file"
    \/ f.parent = "absent" /\ ~f.writable
    \/ f.child = "absent" /\ ~f.parentWritable

IsPrefix(a, b) == Len(a) <= Len(b) /\ SubSeq(b, 1, Len(a)) = a

IsSuffix(a, b) ==
    Len(a) <= Len(b) /\ SubSeq(b, Len(b) - Len(a) + 1, Len(b)) = a

\* p is a file of the backup directory whose name matches screenshot-*.png
IsScreenshotPath(p) ==
    /\ IsPrefix(screenshot_dir \o << "/" >> \o FilePrefix, p)
    /\ IsSuffix(FileSuffix, p)
    /\ Len(p) >= Len(screenshot_dir) + 1 + Len(FilePrefix) + Len(FileSuffix)

\* The timestamp a path of the backup directory embeds.
EmbeddedTimestamp(p) ==
    SubSeq(p, Len(screenshot_dir) + 1 + Len(FilePrefix) + 1,
           Len(p) - Len(FileSuffix))

\* The second of the local clock in which a clock reading falls.
SecondOf(t) == t \div TicksPerSec

\* In this step the save of run r returns.
SaveReturns(r) == pc[r] = "save" /\ pc'[r] = "print"

\* -------------------------------------------------------------------- C1
\* C1: whenever the capture step or the save step of a run fails, the error
\* is caught (the run never ends abnormally), the success message is not
\* printed, and once the run is over it has exited with the normal status
\* after printing the failure message with the description of that error.
C1_FailureInTryIsCaught ==
    \A r \in Runs :
        FailedInTry(r) =>
            /\ pc[r] \in {"except", "done"}
            /\ exitStatus[r] \in {-1, 0}
            /\ ~PrintedSuccess(r)
            /\ pc[r] = "done" =>
                  /\ exitStatus[r] = 0
                  /\ stdout[r] = << FailureLine(hist[r].raised) >>

\* -------------------------------------------------------------------- C2
\* C2: a run started where the backup directory cannot be created ends
\* abnormally at once, prints neither message, and never executes the later
\* steps: no timestamp, no capture, no save, no file touched, then or later.
C2_DirFailureIsFatal ==
    [][ \A r \in Runs :
          /\ (pc[r] = "idle" /\ pc'[r] # "idle" /\ DirCreationFails(fs)) =>
                /\ pc'[r] = "crashed"
                /\ exitStatus'[r] = 1
                /\ stdout'[r] = << >>
                /\ hist'[r].steps = << >>
                /\ timestamp'[r] = << >> /\ filepath'[r] = << >>
                /\ image'[r] = 0
                /\ files' = files
          /\ (pc[r] = "crashed" /\ ~PastDirectory(r)) =>
                /\ pc'[r] = "crashed"
                /\ exitStatus'[r] = 1
                /\ stdout'[r] = << >>
                /\ hist'[r].steps = << >>
                /\ timestamp'[r] = << >> /\ image'[r] = 0
      ]_vars

\* A run found a regular file at backups/screenshots and died of it.
C2_Witness ==
    \E r \in Runs :
        /\ pc[r] = "crashed" /\ ~PastDirectory(r)
        /\ fs.child = "file"
        /\ exitStatus[r] = 1

\* -------------------------------------------------------------------- C3
\* The save of run r returns in this step, in a run that will end by
\* printing the success message.
SuccessfulSave(r) == SaveReturns(r) /\ console = "utf8"

\* C3 as stated: every run that ends by printing the success message made
\* exactly one new screenshot-*.png file appear in the backup directory
\* (the save is the only step of a run that writes to the directory).
C3_ExactlyOneNewFile ==
    [][ \A r \in Runs :
          SuccessfulSave(r) =>
              Cardinality({ p \in DOMAIN files' :
                              p \notin DOMAIN files /\ IsScreenshotPath(p) }) = 1
      ]_vars

\* C3 as amended: the save of a run that ends by printing the success
\* message leaves the file at the run's path holding the run's image and
\* touches no other file: exactly one new file when no file of that name
\* existed, none when an earlier file was overwritten; the success message
\* names that file, and printing it changes no file.
C3_AtMostOneNewFile ==
    [][ \A r \in Runs :
          /\ SuccessfulSave(r) =>
                /\ IsScreenshotPath(filepath[r])
                /\ DOMAIN files' = DOMAIN files \cup { filepath[r] }
                /\ files'[filepath[r]] = [ by |-> r, complete |-> TRUE ]
                /\ \A p \in DOMAIN files \ { filepath[r] } : files'[p] = files[p]
                /\ DOMAIN files' \ DOMAIN files
                     = IF filepath[r] \in DOMAIN files THEN {}
                       ELSE { filepath[r] }
          /\ (pc[r] = "print" /\ pc'[r] = "done" /\ console = "utf8") =>
                /\ stdout'[r] = << SuccessLine(filepath[r]) >>
                /\ filepath[r] \in DOMAIN files
                /\ files' = files
      ]_vars

\* Two runs ended by printing the success message, the later save having
\* overwritten the file of the earlier one.
C3_Witness ==
    \E r1, r2 \in Runs :
        /\ r1 # r2
        /\ Succeeded(r1) /\ Succeeded(r2)
        /\ filepath[r1] = filepath[r2]
        /\ files[filepath[r2]].by = r2

\* -------------------------------------------------------------------- C4
\* C4: when the capture step of a run fails, the run does not end
\* abnormally, it writes no file to the backup directory, and once over it
\* has printed the failure message and exited with the normal status.
C4_CaptureFailureLeavesNoFile ==
    \A r \in Runs :
        Did(r, "capture_failed") =>
            /\ pc[r] \in {"except", "done"}
            /\ \A p \in DOMAIN files : files[p].by # r
            /\ pc[r] = "done" =>
                  /\ Len(stdout[r]) = 1 /\ IsFailureLine(stdout[r][1])
                  /\ exitStatus[r] = 0

\* -------------------------------------------------------------------- C5
\* C5: a run that reached the end of the script has written exactly one
\* line to the console: the success line with the saved path when nothing
\* failed, the failure line with the error description otherwise.
C5_ExactlyOneLine ==
    \A r \in Runs :
        pc[r] = "done" =>
            /\ Len(stdout[r]) = 1
            /\ IF FailedInTry(r)
               THEN stdout[r][1] = FailureLine(hist[r].raised)
               ELSE stdout[r][1] = SuccessLine(filepath[r])
            /\ ~(PrintedSuccess(r) /\ PrintedFailure(r))

\* -------------------------------------------------------------------- C6
\* C6: when the save of a run returns after the save of another run that
\* read its timestamp in the same second of the local clock, the two runs
\* have the same file path, the file of the first is overwritten, and
\* afterwards exactly one file of the backup directory carries that
\* timestamp, holding the image of the run that saved second.
C6_SameSecondOverwrites ==
    [][ \A r1, r2 \in Runs :
          ( /\ r1 # r2
            /\ Saved(r1) /\ SaveReturns(r2)
            /\ hist[r1].tsClock = hist[r2].tsClock ) =>
              /\ filepath[r1] = filepath[r2]
              /\ filepath[r1] \in DOMAIN files
              /\ files'[filepath[r2]] = [ by |-> r2, complete |-> TRUE ]
              /\ DOMAIN files' = DOMAIN files
              /\ Cardinality({ p \in DOMAIN files' :
                      EmbeddedTimestamp(p) = timestamp[r2] }) = 1
      ]_vars

\* Two runs read the clock in the same second, both saved and both ended
\* with the success message; one file is there, holding the image of one.
C6_Witness ==
    \E r1, r2 \in Runs :
        /\ r1 < r2
        /\ Succeeded(r1) /\ Succeeded(r2)
        /\ hist[r1].tsClock = hist[r2].tsClock
        /\ Cardinality(DOMAIN files) = 1
        /\ \A p \in DOMAIN files : files[p].complete

\* -------------------------------------------------------------------- C7
\* C7: two runs that read their timestamps in different seconds of the
\* local clock have different timestamps and different file paths, and
\* every file of the backup directory was last written by a run whose path
\* it is: neither run writes to the file of the other.
C7_DifferentSecondsDifferentPaths ==
    /\ \A r1, r2 \in Runs :
          ( /\ hist[r1].tsClock >= 0 /\ hist[r2].tsClock >= 0
            /\ hist[r1].tsClock # hist[r2].tsClock ) =>
              /\ timestamp[r1] # timestamp[r2]
              /\ filepath[r1] # filepath[r2]
    /\ \A p \in DOMAIN files : filepath[files[p].by] = p

\* Two successful runs read the clock in different seconds and both files
\* are there, each holding the image of its run.
C7_Witness ==
    \E r1, r2 \in Runs :
        /\ r1 < r2
        /\ Succeeded(r1) /\ Succeeded(r2)
        /\ hist[r1].tsClock # hist[r2].tsClock
        /\ files[filepath[r1]].by = r1
        /\ files[filepath[r2]].by = r2

\* -------------------------------------------------------------------- C8
\* C8: the ensure-directory step of a run that finds backups/screenshots
\* there succeeds and changes nothing; when the step succeeds the directory
\* exists, whether or not it existed before, and ensuring it once more
\* would succeed and change nothing; and the directory exists from then on,
\* for every run that got past the step.
C8_DirectoryEnsured ==
    [][ \A r \in Runs :
          /\ (pc[r] = "idle" /\ pc'[r] # "idle") =>
                /\ fs.child = "dir" => (pc'[r] = "now" /\ fs' = fs)
                /\ pc'[r] = "now" =>
                      /\ fs'.parent = "dir" /\ fs'.child = "dir"
                      /\ makedirs(fs', TRUE) = [ raised |-> FALSE, fs |-> fs' ]
                /\ pc'[r] = "crashed" => fs'.child # "dir"
          /\ PastDirectory(r) =>
                fs'.parent = "dir" /\ fs'.child = "dir"
      ]_vars

\* Two runs are over and both got past the ensure-directory step: the one
\* that started second found the directory there.
C8_Witness ==
    \E r1, r2 \in Runs :
        /\ r1 < r2
        /\ Exited(r1) /\ PastDirectory(r1)
        /\ Exited(r2) /\ PastDirectory(r2)
        /\ fs.child = "dir"

\* -------------------------------------------------------------------- C9
\* The steps of a run: ensure-directory, filename, capture, save, report;
\* cut short after a failed capture or a failed save by the
\* failure report; each report itself may fail, and the failure of the
\* success report is met by the failure report, which then fails too.
StepOrders ==
    { << "ensure_directory", "filename", "capture", "save", "report_saved" >>,
      << "ensure_directory", "filename", "capture", "save",
         "report_saved_failed", "report_failed_failed" >>,
      << "ensure_directory", "filename", "capture_failed", "report_failed" >>,
      << "ensure_directory", "filename", "capture_failed",
         "report_failed_failed" >>,
      << "ensure_directory", "filename", "capture", "save_failed",
         "report_failed" >>,
      << "ensure_directory", "filename", "capture", "save_failed",
         "report_failed_failed" >> }

\* C9: what a run has done so far is a beginning of ensure-directory,
\* filename, capture, save, report, or such a beginning cut short by a
\* failure (then followed by the failure report only); the timestamp and path are set only once the directory is ensured, an image
\* is held only once the path is fixed, a file is written only by a run
\* that captured, and the success message only follows a successful save.
C9_FixedOrder ==
    \A r \in Runs :
        /\ \E order \in StepOrders : IsPrefix(Steps(r), order)
        /\ timestamp[r] # << >> => PastDirectory(r)
        /\ (filepath[r] # << >>) = Did(r, "filename")
        /\ (image[r] # 0) = Did(r, "capture")
        /\ PrintedSuccess(r) => Saved(r)
        /\ Did(r, "report_saved") => Saved(r)
        /\ \A p \in DOMAIN files : files[p].by = r => Did(r, "capture")

\* A run went through all five steps.
C9_Witness ==
    \E r \in Runs :
        /\ pc[r] = "done"
        /\ Steps(r) = << "ensure_directory", "filename", "capture", "save",
                       "report_saved" >>

\* ------------------------------------------------------------------- C10
DigitValue(c) == CHOOSE d \in 0..9 : DigitChar(d) = c

RECURSIVE Number(_)
\* The number a sequence of digits writes.
Number(ds) ==
    IF ds = << >> THEN 0
    ELSE 10 * Number(SubSeq(ds, 1, Len(ds) - 1)) + DigitValue(ds[Len(ds)])

RECURSIVE DaysBeforeYear(_)
DaysBeforeYear(y) ==
    IF y <= Epoch.year THEN 0 ELSE DaysBeforeYear(y - 1) + DaysInYear(y - 1)

RECURSIVE DaysBeforeMonth(_, _)
DaysBeforeMonth(y, m) ==
    IF m <= 1 THEN 0 ELSE DaysBeforeMonth(y, m - 1) + DaysInMonth(y, m - 1)

\* The timestamp parsed back with the format %Y-%m-%d-%H%M%S: the second of
\* local time it denotes, counted from Epoch.
ParsedBack(ts) ==
    LET year == Number(SubSeq(ts, 1, 4))
        days == DaysBeforeYear(year)
                  + DaysBeforeMonth(year, Number(SubSeq(ts, 6, 7)))
                  + Number(SubSeq(ts, 9, 10)) - 1
        secs == 3600 * Number(SubSeq(ts, 12, 13))
                  + 60 * Number(SubSeq(ts, 14, 15))
                  + Number(SubSeq(ts, 16, 17))
    IN  86400 * days + secs

\* The run has saved its file and its process still lives: every moment
\* from the save to the end of the run.
ProducedFile(r) == Running(r) /\ Saved(r)

\* The second sec of the local clock was read before the clock was set back
\* (until then the clock is never behind the start of the behaviour).
BeforeSetBack(sec) == \E s \in StartSeconds : sec >= s

\* C10 as stated: in every run that produces a file, the timestamp of the
\* file name denotes a clock reading no earlier than the start of the run
\* and no later than its end.
C10_TimestampWithinRun ==
    \A r \in Runs :
        ProducedFile(r) =>
            LET parsed == TicksPerSec * ParsedBack(EmbeddedTimestamp(filepath[r]))
            IN  /\ hist[r].startClock <= parsed
                /\ parsed <= clock

\* C10 as amended: the timestamp of the file name denotes the second in
\* which the run read the local clock.  Unless the clock was set back in
\* between, that second is no earlier than the second in which the run
\* started (so less than one second before the start) and no later than
\* the second in which the run ends.
C10_TimestampWithinRunToTheSecond ==
    \A r \in Runs :
        ProducedFile(r) =>
            LET parsed  == ParsedBack(EmbeddedTimestamp(filepath[r]))
                started == SecondOf(hist[r].startClock)
                ending  == SecondOf(clock)
            IN  /\ parsed = hist[r].tsClock
                /\ BeforeSetBack(started) = BeforeSetBack(parsed) =>
                      started <= parsed
                /\ BeforeSetBack(parsed) = BeforeSetBack(ending) =>
                      parsed <= ending

\* A run that started in the middle of a second has saved a file whose
\* timestamp denotes the beginning of that second; another has saved a file
\* after reading the clock in a later second than the one it started in.
C10_Witness ==
    \E r1, r2 \in Runs :
        /\ ProducedFile(r1)
        /\ TicksPerSec * ParsedBack(timestamp[r1]) < hist[r1].startClock
        /\ SecondOf(hist[r1].startClock) = hist[r1].tsClock
        /\ ProducedFile(r2)
        /\ SecondOf(hist[r2].startClock) < hist[r2].tsClock

====
